---- MODULE Spec2Model ----
(***************************************************************************)
(* A model of cpucompare's profile core (src/src/utils/parseProfile.ts):   *)
(* parseCpuProfile with its two parsers and flame-tree builders, and       *)
(* compareProfiles; of the App's upload flow (src/src/App.tsx) and of the  *)
(* in-place sort in FlameGraphPanel's render.                              *)
(*                                                                         *)
(* JavaScript numbers are modelled as fixed-point values: a finite number  *)
(* x is [k |-> "num", v |-> x * Scale], and NaN, +Infinity and -Infinity   *)
(* are values of their own with IEEE-754's rules.  Scale is chosen so that *)
(* every division the code performs on the modelled inputs is exact;       *)
(* floating-point rounding is not modelled.                                *)
(*                                                                         *)
(* An optional JSON field is a sequence: <<>> when the field is absent,    *)
(* <<x>> when it is present with value x.                                  *)
(***************************************************************************)
EXTENDS Integers, Sequences, FiniteSets, TLC

VARIABLES json, parsed, left, right, comparison,
          leftProfile, rightProfile, uploads

vars == <<json, parsed, left, right, comparison, leftProfile, rightProfile, uploads>>

(***************************************************************************)
(* JavaScript numbers                                                      *)
(***************************************************************************)
Scale == 6 * 1000 * 1000

Num(v) == [k |-> "num", v |-> v]
NaN == [k |-> "nan", v |-> 0]
PosInf == [k |-> "inf", v |-> 1]
NegInf == [k |-> "inf", v |-> 0 - 1]
Zero == Num(0)
FromInt(i) == Num(i * Scale)

JsNeg(a) == [k |-> a.k, v |-> 0 - a.v]

JsAdd(a, b) ==
  IF a.k = "nan" \/ b.k = "nan" THEN NaN
  ELSE IF a.k = "inf" /\ b.k = "inf" THEN (IF a.v = b.v THEN a ELSE NaN)
  ELSE IF a.k = "inf" THEN a
  ELSE IF b.k = "inf" THEN b
  ELSE Num(a.v + b.v)

JsSub(a, b) == JsAdd(a, JsNeg(b))

\* n * a for an integer n (a sample count)
JsMulInt(n, a) ==
  IF a.k = "nan" THEN NaN
  ELSE IF a.k = "inf" THEN (IF n = 0 THEN NaN ELSE IF n > 0 THEN a ELSE JsNeg(a))
  ELSE Num(n * a.v)

\* a / d for an integer d > 0
JsDivInt(a, d) ==
  IF a.k # "num" THEN a
  ELSE IF a.v >= 0 THEN Num(a.v \div d)
  ELSE Num(0 - ((0 - a.v) \div d))

\* a < b and a > b; false when either side is NaN
JsLt(a, b) ==
  /\ a.k # "nan"
  /\ b.k # "nan"
  /\ IF a.k = "inf" THEN a.v < 0 /\ ~(b.k = "inf" /\ b.v < 0)
     ELSE IF b.k = "inf" THEN b.v > 0
     ELSE a.v < b.v

JsGt(a, b) == JsLt(b, a)

\* a >= b; false when either side is NaN
JsGe(a, b) == a.k # "nan" /\ b.k # "nan" /\ ~JsLt(a, b)

JsMin(a, b) ==
  IF a.k = "nan" \/ b.k = "nan" THEN NaN ELSE IF JsLt(b, a) THEN b ELSE a

JsMax(a, b) ==
  IF a.k = "nan" \/ b.k = "nan" THEN NaN ELSE IF JsLt(a, b) THEN b ELSE a

JsAbs(a) ==
  IF a.k = "nan" THEN NaN
  ELSE IF a.k = "inf" THEN PosInf
  ELSE IF a.v < 0 THEN Num(0 - a.v) ELSE a

\* a || 0
OrZero(a) == IF a.k = "nan" \/ (a.k = "num" /\ a.v = 0) THEN Zero ELSE a

\* v / 1000: the conversion from microseconds to milliseconds
ToMs(a) == JsDivInt(a, 1000)

(***************************************************************************)
(* Deserialized JSON values                                                *)
(***************************************************************************)
\* a field that is missing (or null): falsy
Absent == [t |-> "absent", items |-> <<>>]
\* an array; an empty array is truthy
Arr(s) == [t |-> "array", items |-> s]
\* an object used as a mapping from keys to values
Obj(m) == [t |-> "object", items |-> m]
\* a truthy value that is neither an array nor a mapping (a number, say)
Other == [t |-> "other", items |-> <<>>]

Truthy(field) == field.t # "absent"

NullPayload == [t |-> "null", samples |-> Absent, stackFrames |-> Absent,
                nodes |-> Absent, timeDeltas |-> Absent, extra |-> FALSE]
NumberPayload == [t |-> "number", samples |-> Absent, stackFrames |-> Absent,
                  nodes |-> Absent, timeDeltas |-> Absent, extra |-> FALSE]
Payload(s, f, n, d, x) == [t |-> "object", samples |-> s, stackFrames |-> f,
                           nodes |-> n, timeDeltas |-> d, extra |-> x]

NullFrame == [t |-> "null", name |-> <<>>, parent |-> <<>>]
Frame(name, parent) == [t |-> "object", name |-> name, parent |-> parent]

\* a sample entry: null, a trace-event sample object, or a number (a node id
\* of the sample format; read as an object, a number has no fields)
NullSample == [t |-> "null", id |-> <<>>, sf |-> <<>>, ts |-> <<>>, weight |-> <<>>]
Sample(sf, ts, weight) ==
  [t |-> "object", id |-> <<>>, sf |-> sf, ts |-> ts, weight |-> weight]
NumSample(id) ==
  [t |-> "number", id |-> <<id>>, sf |-> <<>>, ts |-> <<>>, weight |-> <<>>]

NullNode == [t |-> "null", id |-> <<>>, functionName |-> <<>>, children |-> Absent]
Node(id, fname, children) ==
  [t |-> "object", id |-> id, functionName |-> fname, children |-> children]

(***************************************************************************)
(* Sequences and insertion-ordered maps                                    *)
(***************************************************************************)
Min(S) == CHOOSE x \in S : \A y \in S : x <= y

RECURSIVE SortedSeq(_)
SortedSeq(S) == IF S = {} THEN <<>> ELSE <<Min(S)>> \o SortedSeq(S \ {Min(S)})

Range(s) == {s[i] : i \in DOMAIN s}

\* the position of key id in a Map kept as a sequence of records, 0 if none
IndexOf(fm, id) ==
  IF \E i \in DOMAIN fm : fm[i].id = id
  THEN CHOOSE i \in DOMAIN fm : fm[i].id = id /\ \A j \in 1..(i - 1) : fm[j].id # id
  ELSE 0

Has(fm, id) == IndexOf(fm, id) # 0

\* The comparator (a, b) => key(b) - key(a): b goes before a when the
\* difference is > 0; a NaN difference counts as 0 (ECMAScript SortCompare).
ComesBefore(kb, ka) == JsGt(JsSub(kb, ka), Zero)

\* Array.prototype.sort is stable: the positions 1..n of the elements, ordered
\* by non-increasing key, equal keys in their original order.
RECURSIVE InsertDesc(_, _, _)
InsertDesc(perm, i, keys) ==
  IF perm = <<>> THEN <<i>>
  ELSE IF ComesBefore(keys[i], keys[perm[Len(perm)]])
       THEN InsertDesc(SubSeq(perm, 1, Len(perm) - 1), i, keys) \o <<perm[Len(perm)]>>
       ELSE perm \o <<i>>

RECURSIVE SortPerm(_, _)
SortPerm(n, keys) ==
  IF n = 0 THEN <<>> ELSE InsertDesc(SortPerm(n - 1, keys), n, keys)

SortDesc(s, keys) == [j \in 1..Len(s) |-> s[SortPerm(Len(s), keys)[j]]]

(***************************************************************************)
(* parseTraceEventProfile                                                  *)
(***************************************************************************)
\* what a parse call ends with: a ParsedProfile, or a thrown error.  parser
\* is not a field of ParsedProfile: it records which branch of
\* parseCpuProfile produced the result.
Returned(parser, flame, duration, functions) ==
  [outcome |-> "ok", parser |-> parser, flamegraphData |-> flame,
   totalDuration |-> duration, functions |-> functions]

Thrown(error, parser) ==
  [outcome |-> error, parser |-> parser, flamegraphData |-> <<>>,
   totalDuration |-> Zero, functions |-> <<>>]

FlameNode(name, value, children) ==
  [name |-> name, value |-> value, children |-> children]

\* frame.name || '(anonymous)'
FrameName(frame) == IF frame.name = <<>> THEN "(anonymous)" ELSE frame.name[1]

\* frame.parent ? frame.parent.toString() : undefined; a parent of 0 is falsy
ParentOf(frame) ==
  IF frame.parent = <<>> THEN <<>>
  ELSE IF frame.parent[1] = 0 THEN <<>> ELSE frame.parent

\* the first pass over Object.entries(stackFrames): integer-like keys come in
\* ascending order
TraceFunctionMap(frames) ==
  LET ids == SortedSeq(DOMAIN frames)
  IN [i \in 1..Len(ids) |->
        [id |-> ids[i], name |-> FrameName(frames[ids[i]]),
         selfTime |-> Zero, totalTime |-> Zero, category |-> "Unknown",
         parent |-> ParentOf(frames[ids[i]]), children |-> <<>>]]

\* the ids, in map order, of the records whose parent is id
ChildrenOf(fm, id) ==
  LET kids == SelectSeq(fm, LAMBDA f : f.parent = <<id>>)
  IN [k \in 1..Len(kids) |-> kids[k].id]

\* the second pass: every record with a parent that exists is pushed onto
\* that parent's children
LinkChildren(fm) ==
  [i \in DOMAIN fm |-> [fm[i] EXCEPT !.children = ChildrenOf(fm, fm[i].id)]]

\* parseInt(sample.ts); NaN when the field is missing
SampleTs(sample) == IF sample.ts = <<>> THEN NaN ELSE FromInt(sample.ts[1])

\* parseInt(sample.weight) || 1
SampleWeight(sample) ==
  IF sample.weight = <<>> THEN 1
  ELSE IF sample.weight[1] = 0 THEN 1 ELSE sample.weight[1]

RECURSIVE FirstTimestamp(_, _)
FirstTimestamp(samples, n) ==
  IF n = 0 THEN PosInf
  ELSE JsMin(FirstTimestamp(samples, n - 1), SampleTs(samples[n]))

RECURSIVE LastTimestamp(_, _)
LastTimestamp(samples, n) ==
  IF n = 0 THEN Zero
  ELSE JsMax(LastTimestamp(samples, n - 1), SampleTs(samples[n]))

TraceDuration(samples) ==
  JsSub(LastTimestamp(samples, Len(samples)), FirstTimestamp(samples, Len(samples)))

AverageSampleInterval(samples) ==
  IF Len(samples) > 1
  THEN JsDivInt(TraceDuration(samples), Len(samples) - 1)
  ELSE TraceDuration(samples)

\* sampleCounts.get(frameId) || 0 after the first n samples
RECURSIVE SampleCounts(_, _, _)
SampleCounts(samples, n, frameId) ==
  IF n = 0 THEN 0
  ELSE SampleCounts(samples, n - 1, frameId)
       + (IF samples[n].sf = <<frameId>> THEN SampleWeight(samples[n]) ELSE 0)

SelfTimes(fm, samples) ==
  [i \in DOMAIN fm |->
     [fm[i] EXCEPT !.selfTime =
        JsMulInt(SampleCounts(samples, Len(samples), fm[i].id),
                 AverageSampleInterval(samples))]]

\* calculateTotalTime(frameId), with the visited set and the records it
\* writes threaded through: the result is [fm, visited, ret]
RECURSIVE calculateTotalTime(_, _, _)
RECURSIVE SumChildren(_, _, _, _, _)
calculateTotalTime(fm, visited, frameId) ==
  IF frameId \in visited
  THEN [fm |-> fm, visited |-> visited,
        ret |-> IF Has(fm, frameId) THEN OrZero(fm[IndexOf(fm, frameId)].totalTime)
                ELSE Zero]
  ELSE IF ~Has(fm, frameId)
  THEN [fm |-> fm, visited |-> visited \cup {frameId}, ret |-> Zero]
  ELSE LET i == IndexOf(fm, frameId)
           r == SumChildren(fm, visited \cup {frameId}, fm[i].children, 1, fm[i].selfTime)
       IN [fm |-> [r.fm EXCEPT ![i].totalTime = r.ret],
           visited |-> r.visited, ret |-> r.ret]

SumChildren(fm, visited, children, k, acc) ==
  IF k > Len(children) THEN [fm |-> fm, visited |-> visited, ret |-> acc]
  ELSE LET r == calculateTotalTime(fm, visited, children[k])
       IN SumChildren(r.fm, r.visited, children, k + 1, JsAdd(acc, r.ret))

\* !func.parent || !functionMap.has(func.parent)
IsRootFrame(fm, func) == func.parent = <<>> \/ ~Has(fm, func.parent[1])

\* calculateTotalTime is called for the root frames only, in map order
RECURSIVE TotalTimes(_, _, _)
TotalTimes(fm, visited, k) ==
  IF k > Len(fm) THEN fm
  ELSE IF IsRootFrame(fm, fm[k])
  THEN LET r == calculateTotalTime(fm, visited, fm[k].id)
       IN TotalTimes(r.fm, r.visited, k + 1)
  ELSE TotalTimes(fm, visited, k + 1)

(***************************************************************************)
(* buildFlameGraphFromTraceData                                            *)
(***************************************************************************)
\* no pruning: every child node is kept
KeepEveryNode(child) == TRUE

\* child.value > 0 || child.children.length > 0
KeepNode(child) == JsGt(child.value, Zero) \/ Len(child.children) > 0

\* .filter(...).sort((a, b) => b.value - a.value)
PruneAndSort(built) ==
  LET kept == SelectSeq(built, KeepNode)
  IN SortDesc(kept, [k \in DOMAIN kept |-> kept[k].value])

\* Math.max(0, func.totalTime / 1000)
TraceNodeValue(func) == JsMax(Zero, ToMs(func.totalTime))

RECURSIVE buildTraceNode(_, _)
buildTraceNode(fm, frameId) ==
  IF ~Has(fm, frameId) THEN FlameNode("Unknown", Zero, <<>>)
  ELSE LET func == fm[IndexOf(fm, frameId)]
       IN FlameNode(func.name, TraceNodeValue(func),
                    PruneAndSort([k \in DOMAIN func.children |->
                                    buildTraceNode(fm, func.children[k])]))

\* the largest root taken alone already at twice the second largest
IsMainRootAtTwice(rootNodes) ==
  Len(rootNodes) > 1 /\ JsGe(rootNodes[1].value, JsMulInt(2, rootNodes[2].value))

\* mainRoot.value > secondLargest * 2, secondLargest = rootNodes[1]?.value || 0
IsMainRoot(rootNodes) ==
  LET secondLargest == IF Len(rootNodes) > 1 THEN OrZero(rootNodes[2].value) ELSE Zero
  IN JsGt(rootNodes[1].value, JsMulInt(2, secondLargest))

buildFlameGraphFromTraceData(fm) ==
  LET rootFrames == SelectSeq(fm, LAMBDA f : IsRootFrame(fm, f))
      rootNodes == PruneAndSort([k \in DOMAIN rootFrames |->
                                   buildTraceNode(fm, rootFrames[k].id)])
  IN IF Len(rootFrames) = 0 THEN FlameNode("Root", Zero, <<>>)
     ELSE IF Len(rootNodes) = 1 THEN rootNodes[1]
     ELSE IF Len(rootNodes) > 0 /\ IsMainRoot(rootNodes) THEN rootNodes[1]
     ELSE FlameNode("Profile Root", Zero, rootNodes)

parseTraceEventProfile(profile) ==
  LET frames == profile.stackFrames.items
      samples == profile.samples.items
  IN IF \E id \in DOMAIN frames : frames[id].t = "null"
     THEN Thrown("TypeError", "trace")
     ELSE IF profile.samples.t # "array"
     THEN Thrown("TypeError", "trace")
     ELSE IF \E i \in DOMAIN samples : samples[i].t = "null"
     THEN Thrown("TypeError", "trace")
     ELSE LET fm == TotalTimes(SelfTimes(LinkChildren(TraceFunctionMap(frames)), samples), {}, 1)
          IN Returned("trace", buildFlameGraphFromTraceData(fm),
                      ToMs(TraceDuration(samples)), fm)

(***************************************************************************)
(* parseV8Profile.  The modelled nodes carry no callFrame.url, so the      *)
(* display name is the function name.                                      *)
(***************************************************************************)
\* callFrame.functionName || '(anonymous)'
NodeName(node) ==
  IF node.functionName = <<>> THEN "(anonymous)" ELSE node.functionName[1]

\* node.children || []
NodeChildren(node) ==
  IF node.children.t = "array" THEN node.children.items
  ELSE IF node.children.t = "absent" THEN <<>>
  ELSE Other

\* Map.prototype.set: a key already present keeps its position
MapSet(fm, rec) ==
  IF Has(fm, rec.id) THEN [fm EXCEPT ![IndexOf(fm, rec.id)] = rec]
  ELSE Append(fm, rec)

RECURSIVE V8FunctionMap(_, _)
V8FunctionMap(nodes, n) ==
  IF n = 0 THEN <<>>
  ELSE MapSet(V8FunctionMap(nodes, n - 1),
              [id |-> nodes[n].id[1], name |-> NodeName(nodes[n]),
               selfTime |-> Zero, totalTime |-> Zero, category |-> "JavaScript",
               parent |-> <<>>, children |-> NodeChildren(nodes[n])])

\* a slip in the index: timeDeltas[index + 1] || 0
TimeDeltaShifted(timeDeltas, index) ==
  IF index + 1 \in DOMAIN timeDeltas THEN OrZero(timeDeltas[index + 1]) ELSE Zero

\* timeDeltas[index] || 0
TimeDelta(timeDeltas, index) ==
  IF index \in DOMAIN timeDeltas THEN OrZero(timeDeltas[index]) ELSE Zero

\* the samples loop, after the first n samples: [fm, totalDuration]
RECURSIVE AttributeSamples(_, _, _, _)
AttributeSamples(fm, samples, timeDeltas, n) ==
  IF n = 0 THEN [fm |-> fm, totalDuration |-> Zero]
  ELSE LET r == AttributeSamples(fm, samples, timeDeltas, n - 1)
           timeDelta == TimeDelta(timeDeltas, n)
           i == IF samples[n].id = <<>> THEN 0 ELSE IndexOf(r.fm, samples[n].id[1])
       IN [fm |-> IF i = 0 THEN r.fm
                  ELSE [r.fm EXCEPT ![i].selfTime = JsAdd(@, timeDelta),
                                    ![i].totalTime = JsAdd(@, timeDelta)],
           totalDuration |-> JsAdd(r.totalDuration, timeDelta)]

(***************************************************************************)
(* buildFlameGraphData                                                     *)
(***************************************************************************)
\* nodes.some(other => other.children && other.children.includes(id)), from
\* position k on: "yes", "no", or "throw" when a truthy children field that is
\* no list is reached first
RECURSIVE IsReferenced(_, _, _)
IsReferenced(nodes, k, id) ==
  IF k > Len(nodes) THEN "no"
  ELSE IF nodes[k].children.t = "absent" THEN IsReferenced(nodes, k + 1, id)
  ELSE IF nodes[k].children.t # "array" THEN "throw"
  ELSE IF id \in Range(nodes[k].children.items) THEN "yes"
  ELSE IsReferenced(nodes, k + 1, id)

V8RootNodes(nodes) ==
  SelectSeq(nodes, LAMBDA node : IsReferenced(nodes, 1, node.id[1]) = "no")

\* nodes.find(n => n.id === nodeId)?.children, as the JSON field
FoundChildren(nodes, nodeId) ==
  IF \E k \in DOMAIN nodes : nodes[k].id = <<nodeId>>
  THEN nodes[CHOOSE k \in DOMAIN nodes :
               /\ nodes[k].id = <<nodeId>>
               /\ \A j \in 1..(k - 1) : nodes[j].id # <<nodeId>>].children
  ELSE Absent

\* buildNode(nodeId) is a pure recursion with no visited set.  stack holds the
\* arguments of the calls that are active: a call whose argument is on the
\* stack repeats an active call, so the recursion never returns and the
\* engine ends it with a RangeError when the call stack is exhausted.
RECURSIVE Reenters(_, _, _, _)
Reenters(fm, nodes, nodeId, stack) ==
  IF ~Has(fm, nodeId) THEN FALSE
  ELSE IF nodeId \in stack THEN TRUE
  ELSE LET children == FoundChildren(nodes, nodeId)
       IN /\ children.t = "array"
          /\ \E k \in DOMAIN children.items :
               Reenters(fm, nodes, children.items[k], stack \cup {nodeId})

\* (node?.children || []).map(buildNode) throws when children is no list
RECURSIVE MapThrows(_, _, _)
MapThrows(fm, nodes, nodeId) ==
  /\ Has(fm, nodeId)
  /\ LET children == FoundChildren(nodes, nodeId)
     IN \/ children.t = "other"
        \/ \E k \in DOMAIN children.items :
             MapThrows(fm, nodes, children.items[k])

RECURSIVE buildV8Node(_, _, _)
buildV8Node(fm, nodes, nodeId) ==
  IF ~Has(fm, nodeId) THEN FlameNode("Unknown", Zero, <<>>)
  ELSE LET func == fm[IndexOf(fm, nodeId)]
           children == FoundChildren(nodes, nodeId).items
       IN FlameNode(func.name, func.selfTime,
                    [k \in DOMAIN children |-> buildV8Node(fm, nodes, children[k])])

\* the result is [error, tree]: error is "none" when a tree is returned
buildFlameGraphData(fm, nodes) ==
  LET rootNodes == V8RootNodes(nodes)
  IN IF \E k \in DOMAIN nodes : IsReferenced(nodes, 1, nodes[k].id[1]) = "throw"
     THEN [error |-> "TypeError", tree |-> <<>>]
     ELSE IF Len(rootNodes) = 0
     THEN [error |-> "none", tree |-> FlameNode("Root", Zero, <<>>)]
     ELSE IF \E k \in DOMAIN rootNodes : Reenters(fm, nodes, rootNodes[k].id[1], {})
     THEN [error |-> "RangeError", tree |-> <<>>]
     ELSE IF \E k \in DOMAIN rootNodes : MapThrows(fm, nodes, rootNodes[k].id[1])
     THEN [error |-> "TypeError", tree |-> <<>>]
     ELSE IF Len(rootNodes) = 1
     THEN [error |-> "none", tree |-> buildV8Node(fm, nodes, rootNodes[1].id[1])]
     ELSE [error |-> "none",
           tree |-> FlameNode("Root", Zero,
                      [k \in DOMAIN rootNodes |->
                         buildV8Node(fm, nodes, rootNodes[k].id[1])])]

parseV8Profile(profile) ==
  LET nodes == profile.nodes.items
      samples == profile.samples.items
      timeDeltas == profile.timeDeltas.items
  IN IF profile.nodes.t # "array"
     THEN Thrown("TypeError", "v8")
     ELSE IF \E k \in DOMAIN nodes : nodes[k].t = "null" \/ nodes[k].id = <<>>
     THEN Thrown("TypeError", "v8")
     ELSE IF profile.samples.t # "array"
     THEN Thrown("TypeError", "v8")
     ELSE LET r == AttributeSamples(V8FunctionMap(nodes, Len(nodes)), samples,
                                    timeDeltas, Len(samples))
              flame == buildFlameGraphData(r.fm, nodes)
          IN IF flame.error # "none" THEN Thrown(flame.error, "v8")
             ELSE Returned("v8", flame.tree, r.totalDuration, r.fm)

(***************************************************************************)
(* parseCpuProfile                                                         *)
(***************************************************************************)
parseCpuProfile(j) ==
  IF j.t = "null" THEN Thrown("TypeError", "none")
  ELSE IF Truthy(j.samples) /\ Truthy(j.stackFrames) THEN parseTraceEventProfile(j)
  ELSE IF Truthy(j.nodes) /\ Truthy(j.samples) /\ Truthy(j.timeDeltas)
  THEN parseV8Profile(j)
  ELSE Returned("none", j, Zero, <<>>)

(***************************************************************************)
(* compareProfiles                                                         *)
(***************************************************************************)
\* the position of name in a Map keyed by name, 0 if none
NameIndex(m, name) ==
  IF \E i \in DOMAIN m : m[i].name = name
  THEN CHOOSE i \in DOMAIN m : m[i].name = name
  ELSE 0

\* a list where a Map belongs: every record kept, names repeated
FunctionsByNameKeepAll(functions, n) == SubSeq(functions, 1, n)

\* new Map(functions.map(f => [f.name, f])): a name met again keeps its
\* position and takes the later record
RECURSIVE FunctionsByName(_, _)
FunctionsByName(functions, n) ==
  IF n = 0 THEN <<>>
  ELSE LET m == FunctionsByName(functions, n - 1)
           i == NameIndex(m, functions[n].name)
       IN IF i = 0 THEN Append(m, functions[n])
          ELSE [m EXCEPT ![i] = functions[n]]

\* 0.01
Epsilon == Num(Scale \div 100)

\* Math.abs(selfTimeDiff) > 0.01 || Math.abs(totalTimeDiff) > 0.01, on the
\* differences as they are before the division by 1000
IsChanged(selfTimeDiff, totalTimeDiff) ==
  JsGt(JsAbs(selfTimeDiff), Epsilon) \/ JsGt(JsAbs(totalTimeDiff), Epsilon)

Changed(leftFunc, rightFunc) ==
  [name |-> leftFunc.name, type |-> "changed",
   leftSelfTime |-> ToMs(leftFunc.selfTime),
   rightSelfTime |-> ToMs(rightFunc.selfTime),
   leftTotalTime |-> ToMs(leftFunc.totalTime),
   rightTotalTime |-> ToMs(rightFunc.totalTime),
   selfTimeDiff |-> ToMs(JsSub(rightFunc.selfTime, leftFunc.selfTime)),
   totalTimeDiff |-> ToMs(JsSub(rightFunc.totalTime, leftFunc.totalTime))]

Removed(leftFunc) ==
  [name |-> leftFunc.name, type |-> "removed",
   leftSelfTime |-> ToMs(leftFunc.selfTime), rightSelfTime |-> Zero,
   leftTotalTime |-> ToMs(leftFunc.totalTime), rightTotalTime |-> Zero,
   selfTimeDiff |-> ToMs(JsNeg(leftFunc.selfTime)),
   totalTimeDiff |-> ToMs(JsNeg(leftFunc.totalTime))]

Added(rightFunc) ==
  [name |-> rightFunc.name, type |-> "added",
   leftSelfTime |-> Zero, rightSelfTime |-> ToMs(rightFunc.selfTime),
   leftTotalTime |-> Zero, rightTotalTime |-> ToMs(rightFunc.totalTime),
   selfTimeDiff |-> ToMs(rightFunc.selfTime),
   totalTimeDiff |-> ToMs(rightFunc.totalTime)]

\* the loop over leftFunctions, after its first n entries
RECURSIVE LeftPass(_, _, _)
LeftPass(leftFunctions, rightFunctions, n) ==
  IF n = 0 THEN <<>>
  ELSE LET differences == LeftPass(leftFunctions, rightFunctions, n - 1)
           leftFunc == leftFunctions[n]
           i == NameIndex(rightFunctions, leftFunc.name)
       IN IF i = 0 THEN Append(differences, Removed(leftFunc))
          ELSE IF IsChanged(JsSub(rightFunctions[i].selfTime, leftFunc.selfTime),
                            JsSub(rightFunctions[i].totalTime, leftFunc.totalTime))
          THEN Append(differences, Changed(leftFunc, rightFunctions[i]))
          ELSE differences

\* the loop over rightFunctions, after its first n entries
RECURSIVE RightPass(_, _, _)
RightPass(leftFunctions, rightFunctions, n) ==
  IF n = 0 THEN <<>>
  ELSE LET differences == RightPass(leftFunctions, rightFunctions, n - 1)
       IN IF NameIndex(leftFunctions, rightFunctions[n].name) = 0
          THEN Append(differences, Added(rightFunctions[n]))
          ELSE differences

\* differences.sort((a, b) => Math.abs(b.selfTimeDiff) - Math.abs(a.selfTimeDiff))
SortByImpact(differences) ==
  SortDesc(differences, [i \in DOMAIN differences |-> JsAbs(differences[i].selfTimeDiff)])

compareProfiles(l, r) ==
  LET leftFunctions == FunctionsByName(l.functions, Len(l.functions))
      rightFunctions == FunctionsByName(r.functions, Len(r.functions))
  IN [done |-> TRUE,
      leftTotalDuration |-> l.totalDuration,
      rightTotalDuration |-> r.totalDuration,
      totalDurationDiff |-> JsSub(r.totalDuration, l.totalDuration),
      differences |->
        SortByImpact(LeftPass(leftFunctions, rightFunctions, Len(leftFunctions))
                     \o RightPass(leftFunctions, rightFunctions, Len(rightFunctions)))]

(***************************************************************************)
(* Inputs.  Ids are small integers; with n records of ids 1..n, the id     *)
(* n + 1 is the id no record has.                                          *)
(***************************************************************************)
MaxFrames == 3
MaxTreeSamples == 2
MaxSamples == 3
MaxNodes == 3
MaxDeltas == 3
MaxCmpNodes == 2

FunctionNames == <<"main", "render", "update", "layout", "paint", "idle">>

SeqsUpTo(S, n) == UNION {[1..k -> S] : k \in 0..n}

\* the children lists of at most two ids, ascending
ChildLists(T) ==
  {<<>>} \cup {<<a>> : a \in T} \cup {<<a, b>> : a \in T, b \in T}

\* sample i of a capture is taken at 6 * (i - 1) microseconds
TickSamples(sfs) == [i \in DOMAIN sfs |-> Sample(<<sfs[i]>>, <<6 * (i - 1)>>, <<>>)]

\* trace-event captures: every shape of parent links over n frames (none,
\* another frame, itself, a cycle, an id no frame has), and every assignment
\* of one or more samples to the frames
TraceTreeInput ==
  \E n \in 1..MaxFrames :
    \E p \in [1..n -> {<<>>} \cup {<<q>> : q \in 1..(n + 1)}] :
      \E sfs \in SeqsUpTo(1..n, MaxTreeSamples) \ {<<>>} :
        json = Payload(Arr(TickSamples(sfs)),
                       Obj([i \in 1..n |-> Frame(<<FunctionNames[i]>>, p[i])]),
                       Absent, Absent, FALSE)

RootWeights == {<<>>, <<2>>, <<3>>}

\* trace-event captures of n parentless frames: every assignment of one or
\* more weighted samples to them, so that the roots' values are equal, one
\* twice the other, or one more than twice the other
TraceRootsInput ==
  \E n \in 2..MaxFrames :
    \E len \in 1..MaxTreeSamples :
      \E sfs \in [1..len -> 1..n], ws \in [1..len -> RootWeights] :
        json = Payload(Arr([i \in 1..len |->
                              Sample(<<sfs[i]>>, <<6 * (i - 1)>>, ws[i])]),
                       Obj([i \in 1..n |-> Frame(<<FunctionNames[i]>>, <<>>)]),
                       Absent, Absent, FALSE)

Timestamps == {0 - 6, 0, 6}
Weights == {<<>>, <<0>>, <<2>>}

\* trace-event captures over the chain main -> render: every list of samples
\* with its timestamps and weights; frame 3 does not exist
TraceTimingInput ==
  \E ss \in SeqsUpTo({Sample(<<sf>>, <<ts>>, w) :
                        sf \in {1, 3}, ts \in Timestamps, w \in Weights}, MaxSamples) :
    json = Payload(Arr(ss),
                   Obj([i \in 1..2 |-> Frame(<<FunctionNames[i]>>,
                                             IF i = 1 THEN <<>> ELSE <<1>>)]),
                   Absent, Absent, FALSE)

ExampleSamples == <<NumSample(1), NumSample(2), NumSample(1)>>
ExampleDeltas == <<FromInt(10), FromInt(5), FromInt(10)>>

\* sample-format captures: every children list of every node, the samples
\* and time deltas fixed
V8TreeInput ==
  \E n \in 1..MaxNodes :
    \E c \in [1..n -> {l \in ChildLists(1..(n + 1)) : Len(l) < 2 \/ l[1] < l[2]}] :
      json = Payload(Arr(ExampleSamples), Absent,
                     Arr([i \in 1..n |-> Node(<<i>>, <<FunctionNames[i]>>, Arr(c[i]))]),
                     Arr(ExampleDeltas), FALSE)

DeltaValues == {Zero, FromInt(5), FromInt(10)}

\* sample-format captures over node 1 with child 2: every list of samples
\* (node 3 does not exist) and every list of time deltas
V8TimingInput ==
  \E ss \in SeqsUpTo({NumSample(i) : i \in 1..3}, MaxSamples) :
    \E ds \in SeqsUpTo(DeltaValues, MaxDeltas) :
      json = Payload(Arr(ss), Absent,
                     Arr(<<Node(<<1>>, <<FunctionNames[1]>>, Arr(<<2>>)),
                           Node(<<2>>, <<FunctionNames[2]>>, Absent)>>),
                     Arr(ds), FALSE)

\* malformed and partial payloads: each top-level field missing, empty,
\* well-formed, or holding an entry of the wrong shape
ShapeSamples ==
  {Absent, Other, Arr(<<>>), Arr(<<NullSample>>),
   Arr(<<Sample(<<1>>, <<0>>, <<>>), Sample(<<1>>, <<6>>, <<>>)>>),
   Arr(<<Sample(<<1>>, <<>>, <<>>)>>),
   Arr(<<NumSample(1), NumSample(2)>>)}

ShapeFrames ==
  {Absent, Obj(<<>>), Obj(<<NullFrame>>),
   Obj(<<Frame(<<FunctionNames[1]>>, <<>>)>>),
   Obj(<<Frame(<<>>, <<0>>), Frame(<<FunctionNames[2]>>, <<1>>)>>)}

ShapeNodes ==
  {Absent, Other, Arr(<<>>), Arr(<<NullNode>>),
   Arr(<<Node(<<>>, <<FunctionNames[1]>>, Absent)>>),
   Arr(<<Node(<<1>>, <<FunctionNames[1]>>, Arr(<<2>>)), Node(<<2>>, <<>>, Absent)>>),
   Arr(<<Node(<<1>>, <<FunctionNames[1]>>, Absent), Node(<<2>>, <<>>, Other)>>),
   Arr(<<Node(<<1>>, <<FunctionNames[1]>>, Arr(<<1, 2>>)), Node(<<2>>, <<>>, Other)>>),
   Arr(<<Node(<<1>>, <<FunctionNames[1]>>, Absent), Node(<<1>>, <<FunctionNames[2]>>, Absent)>>)}

ShapeDeltas == {Absent, Arr(<<>>), Arr(<<FromInt(5)>>)}

ShapeInput ==
  \/ json = NullPayload
  \/ json = NumberPayload
  \/ \E s \in ShapeSamples, f \in ShapeFrames, n \in ShapeNodes,
        d \in ShapeDeltas, x \in BOOLEAN :
       json = Payload(s, f, n, d, x)

\* the profiles compared: sample-format captures of up to MaxCmpNodes nodes,
\* node i sampled once, with every choice of names (two nodes may share one)
\* and time deltas, and trace-event captures over the chain main -> render
CmpNames == {FunctionNames[1], FunctionNames[2]}
CmpDeltas == {Zero, Epsilon, FromInt(5)}

CmpPayloads ==
  UNION {
    { Payload(Arr([i \in 1..n |-> NumSample(i)]), Absent,
              Arr([i \in 1..n |-> Node(<<i>>, <<names[i]>>, Absent)]),
              Arr(ds), FALSE) :
        names \in [1..n -> CmpNames], ds \in [1..n -> CmpDeltas] } :
    n \in 0..MaxCmpNodes }
  \cup
  { Payload(Arr(TickSamples(sfs)),
            Obj([i \in 1..2 |-> Frame(<<FunctionNames[i]>>,
                                      IF i = 1 THEN <<>> ELSE <<1>>)]),
            Absent, Absent, FALSE) :
      sfs \in SeqsUpTo(1..2, 2) }

CmpProfiles == {parseCpuProfile(j) : j \in CmpPayloads}

(***************************************************************************)
(* The parse harness: a payload is handed to parseCpuProfile once.         *)
(***************************************************************************)
NotParsed == Thrown("none", "none")
NoProfile == Thrown("none", "none")
NoComparison == [done |-> FALSE, leftTotalDuration |-> Zero,
                 rightTotalDuration |-> Zero, totalDurationDiff |-> Zero,
                 differences |-> <<>>]

\* the App shows no profile and no upload was started
NoUploads ==
  /\ leftProfile = NoProfile
  /\ rightProfile = NoProfile
  /\ uploads = <<>>

Parse ==
  /\ parsed = NotParsed
  /\ parsed' = parseCpuProfile(json)
  /\ UNCHANGED <<json, left, right, comparison, leftProfile, rightProfile, uploads>>

Compare ==
  /\ ~comparison.done
  /\ comparison' = compareProfiles(left, right)
  /\ UNCHANGED <<json, parsed, left, right, leftProfile, rightProfile, uploads>>

NextParse == Parse

InitTrace ==
  /\ (TraceTreeInput \/ TraceTimingInput \/ TraceRootsInput)
  /\ parsed = NotParsed
  /\ left = NoProfile
  /\ right = NoProfile
  /\ comparison = NoComparison
  /\ NoUploads

SpecTrace == InitTrace /\ [][NextParse]_vars

InitV8 ==
  /\ (V8TreeInput \/ V8TimingInput)
  /\ parsed = NotParsed
  /\ left = NoProfile
  /\ right = NoProfile
  /\ comparison = NoComparison
  /\ NoUploads

SpecV8 == InitV8 /\ [][NextParse]_vars

InitShape ==
  /\ ShapeInput
  /\ parsed = NotParsed
  /\ left = NoProfile
  /\ right = NoProfile
  /\ comparison = NoComparison
  /\ NoUploads

SpecShape == InitShape /\ [][NextParse]_vars

NextCompare == Compare

InitCompare ==
  /\ json = NumberPayload
  /\ parsed = NotParsed
  /\ left \in CmpProfiles
  /\ right \in CmpProfiles
  /\ comparison = NoComparison
  /\ NoUploads

SpecCompare == InitCompare /\ [][NextCompare]_vars

(***************************************************************************)
(* The App: two upload inputs, each upload an asynchronous handleUpload    *)
(* call that reads the file, parses it and sets the App's state.  A call   *)
(* sees leftProfile and rightProfile as they were in the render that       *)
(* created it: uploads[i] keeps them next to the side and the file.        *)
(***************************************************************************)
MaxUploads == 3

\* the files uploaded: two sample-format captures and a file holding null
AppFiles ==
  { Payload(Arr(<<NumSample(1)>>), Absent,
            Arr(<<Node(<<1>>, <<FunctionNames[1]>>, Absent)>>),
            Arr(<<FromInt(5)>>), FALSE),
    Payload(Arr(<<NumSample(1), NumSample(2)>>), Absent,
            Arr(<<Node(<<1>>, <<FunctionNames[1]>>, Arr(<<2>>)),
                  Node(<<2>>, <<FunctionNames[2]>>, Absent)>>),
            Arr(<<FromInt(5), FromInt(10)>>), FALSE),
    NullPayload }

\* FlameGraphPanel's render: profile.functions.sort(...) orders the list of
\* the profile it was given, in place, by non-increasing (selfTime || 0)
RenderPanel(profile) ==
  [profile EXCEPT !.functions =
     SortDesc(profile.functions,
              [i \in DOMAIN profile.functions |-> OrZero(profile.functions[i].selfTime)])]

\* handleUpload(file, side) up to its await: the call is made from the
\* current render and holds that render's leftProfile and rightProfile
StartUpload(file, side) ==
  /\ Len(uploads) < MaxUploads
  /\ uploads' = Append(uploads, [file |-> file, side |-> side, done |-> FALSE,
                                 leftProfile |-> leftProfile,
                                 rightProfile |-> rightProfile])
  /\ UNCHANGED <<json, parsed, left, right, comparison, leftProfile, rightProfile>>

\* handleUpload after file.text() resolved: parse, set the side's profile,
\* compare with the other side's profile the call holds; a thrown error is
\* caught and changes nothing.  The render that follows shows the profile in
\* a FlameGraphPanel.
FinishUpload(i) ==
  /\ ~uploads[i].done
  /\ uploads' = [uploads EXCEPT ![i].done = TRUE]
  /\ LET u == uploads[i]
         p == parseCpuProfile(u.file)
     IN IF p.outcome # "ok"
        THEN UNCHANGED <<leftProfile, rightProfile, comparison>>
        ELSE IF u.side = "left"
        THEN /\ leftProfile' = RenderPanel(p)
             /\ comparison' = IF u.rightProfile # NoProfile
                               THEN compareProfiles(p, u.rightProfile)
                               ELSE comparison
             /\ UNCHANGED rightProfile
        ELSE /\ rightProfile' = RenderPanel(p)
             /\ comparison' = IF u.leftProfile # NoProfile
                               THEN compareProfiles(u.leftProfile, p)
                               ELSE comparison
             /\ UNCHANGED leftProfile
  /\ UNCHANGED <<json, parsed, left, right>>

NextApp ==
  \/ \E file \in AppFiles, side \in {"left", "right"} : StartUpload(file, side)
  \/ \E i \in DOMAIN uploads : FinishUpload(i)

InitApp ==
  /\ json = NumberPayload
  /\ parsed = NotParsed
  /\ left = NoProfile
  /\ right = NoProfile
  /\ comparison = NoComparison
  /\ NoUploads

SpecApp == InitApp /\ [][NextApp]_vars

(***************************************************************************)
(* Two parsed profiles on screen: the App renders each in a                *)
(* FlameGraphPanel and compares them.                                      *)
(***************************************************************************)
\* <FlameGraphPanel profile={leftProfile} />: the render sorts the functions
\* list of the profile object it is given
RenderLeft ==
  /\ left' = RenderPanel(left)
  /\ UNCHANGED <<json, parsed, right, comparison, leftProfile, rightProfile, uploads>>

\* <FlameGraphPanel profile={rightProfile} />
RenderRight ==
  /\ right' = RenderPanel(right)
  /\ UNCHANGED <<json, parsed, left, comparison, leftProfile, rightProfile, uploads>>

NextRender == Compare \/ RenderLeft \/ RenderRight

SpecRender == InitCompare /\ [][NextRender]_vars

(***************************************************************************)
(* The claims                                                              *)
(***************************************************************************)
RECURSIVE SumTotalTime(_, _, _)
SumTotalTime(fm, children, n) ==
  IF n = 0 THEN Zero
  ELSE JsAdd(SumTotalTime(fm, children, n - 1),
             fm[IndexOf(fm, children[n])].totalTime)

\* C1: for every frame f of a profile the trace-event parser returns, whatever
\* the shape of the parent links, totalTime(f) >= selfTime(f) and
\* totalTime(f) = selfTime(f) + the sum of totalTime(c) over f's children c.
C1_TotalIsSelfPlusChildren ==
  (parsed.outcome = "ok" /\ parsed.parser = "trace") =>
    \A i \in DOMAIN parsed.functions :
      LET f == parsed.functions[i]
      IN /\ JsGe(f.totalTime, f.selfTime)
         /\ f.totalTime = JsAdd(f.selfTime,
                                SumTotalTime(parsed.functions, f.children, Len(f.children)))

\* C2: parseCpuProfile terminates for every input whose parent/child links are
\* cyclic or self-referential: no call of it ends in unbounded recursion.
C2_NoUnboundedRecursion == parsed.outcome # "RangeError"

\* C3: parseCpuProfile never ends in a thrown error, whatever the shape of the
\* deserialized JSON value: once it has run, a profile was returned.
C3_NeverThrows == parsed # NotParsed => parsed.outcome = "ok"

\* C4: a 'changed' entry is emitted only when the absolute self-time delta or
\* the absolute total-time delta, in milliseconds (the unit of the emitted
\* selfTimeDiff and totalTimeDiff), exceeds 0.01.
C4_ChangedOnlyAboveEpsilonMs ==
  comparison.done =>
    \A i \in DOMAIN comparison.differences :
      LET d == comparison.differences[i]
      IN d.type = "changed" =>
           \/ JsGt(JsAbs(d.selfTimeDiff), Epsilon)
           \/ JsGt(JsAbs(d.totalTimeDiff), Epsilon)

\* the flame-tree builder returned one root of the capture: its only root, or
\* the dominant one
SingleRootReturned(fm) ==
  LET rootFrames == SelectSeq(fm, LAMBDA f : IsRootFrame(fm, f))
      rootNodes == PruneAndSort([k \in DOMAIN rootFrames |->
                                   buildTraceNode(fm, rootFrames[k].id)])
  IN \/ Len(rootNodes) = 1
     \/ Len(rootNodes) > 1 /\ IsMainRoot(rootNodes)

\* C5: when the flame-tree builder of a trace-event profile of two or more
\* samples returns exactly one root, that root's value equals the profile's
\* totalDuration.
C5_SingleRootValueIsDuration ==
  ( /\ parsed.outcome = "ok"
    /\ parsed.parser = "trace"
    /\ Len(json.samples.items) >= 2
    /\ SingleRootReturned(parsed.functions) ) =>
    parsed.flamegraphData.value = parsed.totalDuration

\* C6: compareProfiles(P, P) returns an empty differences list and
\* totalDurationDiff = 0, for every profile P.
C6_SelfCompareIsEmpty ==
  (comparison.done /\ left = right) =>
    /\ Len(comparison.differences) = 0
    /\ comparison.totalDurationDiff = Zero

\* C7: the differences list is ordered by non-increasing absolute self-time
\* delta: |a.selfTimeDiff| >= |b.selfTimeDiff| for every adjacent pair (a, b).
C7_SortedByAbsSelfDiff ==
  comparison.done =>
    \A i \in 1..(Len(comparison.differences) - 1) :
      JsGe(JsAbs(comparison.differences[i].selfTimeDiff),
           JsAbs(comparison.differences[i + 1].selfTimeDiff))

\* C8: a payload with samples and stackFrames is handled by the trace-event
\* parser, a payload with nodes, samples and timeDeltas by the sample-format
\* parser, and any other payload yields totalDuration = 0, no functions and
\* the payload itself as flamegraphData.
C8_DispatchByShape ==
  parsed # NotParsed =>
    LET isTrace == Truthy(json.samples) /\ Truthy(json.stackFrames)
        isV8 == Truthy(json.nodes) /\ Truthy(json.samples) /\ Truthy(json.timeDeltas)
    IN /\ isTrace => parsed.parser = "trace"
       /\ isV8 => parsed.parser = "v8"
       /\ (~isTrace /\ ~isV8) =>
            /\ parsed.outcome = "ok"
            /\ parsed.totalDuration = Zero
            /\ Len(parsed.functions) = 0
            /\ parsed.flamegraphData = json

\* the tree holds the placeholder buildNode makes for an id without a record
\* (no modelled function is named 'Unknown')
RECURSIVE HasUnknownNode(_)
HasUnknownNode(tree) ==
  \/ tree.name = "Unknown"
  \/ \E k \in DOMAIN tree.children : HasUnknownNode(tree.children[k])

\* C9: a child id that resolves to no record of the profile is treated as
\* absent: it produces no node in the flame tree.
C9_UnresolvedChildIsAbsent ==
  (parsed.outcome = "ok" /\ parsed.parser \in {"trace", "v8"}) =>
    ~HasUnknownNode(parsed.flamegraphData)

\* the sum of timeDeltas[i] over the first n sample positions i whose sample
\* is in ids, a missing timeDeltas[i] counting as 0
RECURSIVE SumOfDeltas(_, _, _, _)
SumOfDeltas(samples, timeDeltas, n, ids) ==
  IF n = 0 THEN Zero
  ELSE JsAdd(SumOfDeltas(samples, timeDeltas, n - 1, ids),
             IF samples[n].id # <<>> /\ samples[n].id[1] \in ids /\ n <= Len(timeDeltas)
             THEN timeDeltas[n] ELSE Zero)

AllSampleIds == {json.samples.items[i].id[1] : i \in DOMAIN json.samples.items}

\* C10: after parseV8Profile each node's selfTime and totalTime both equal the
\* sum of timeDeltas[i] over the positions i whose sample is that node's id (a
\* missing timeDeltas[i] counts as 0), with no subtree summation, and
\* totalDuration is the sum of timeDeltas[i] over all sample positions.
C10_SampleTimes ==
  (parsed.outcome = "ok" /\ parsed.parser = "v8") =>
    LET samples == json.samples.items
        timeDeltas == json.timeDeltas.items
    IN /\ \A k \in DOMAIN json.nodes.items :
            \E i \in DOMAIN parsed.functions :
              LET f == parsed.functions[i]
                  sum == SumOfDeltas(samples, timeDeltas, Len(samples), {f.id})
              IN /\ <<f.id>> = json.nodes.items[k].id
                 /\ f.selfTime = sum
                 /\ f.totalTime = sum
       /\ parsed.totalDuration =
            SumOfDeltas(samples, timeDeltas, Len(samples), AllSampleIds)

\* nodes A (child B) and B, samples [A, B, A], deltas [10, 5, 10]:
\* A = 20, B = 5, totalDuration = 25
C10_Example ==
  /\ parsed.outcome = "ok"
  /\ parsed.parser = "v8"
  /\ Len(json.nodes.items) = 2
  /\ json.nodes.items[1].children = Arr(<<2>>)
  /\ json.samples.items = ExampleSamples
  /\ json.timeDeltas.items = ExampleDeltas
  /\ parsed.functions[1].selfTime = FromInt(20)
  /\ parsed.functions[1].totalTime = FromInt(20)
  /\ parsed.functions[2].selfTime = FromInt(5)
  /\ parsed.functions[2].totalTime = FromInt(5)
  /\ parsed.totalDuration = FromInt(25)

\* the sum of the weights of the first n samples that reference frameId, an
\* absent weight counting as 1
RECURSIVE WeightSum(_, _, _)
WeightSum(samples, n, frameId) ==
  IF n = 0 THEN 0
  ELSE WeightSum(samples, n - 1, frameId)
       + (IF samples[n].sf # <<frameId>> THEN 0
          ELSE IF samples[n].weight = <<>> THEN 1 ELSE samples[n].weight[1])

\* max timestamp - min timestamp over the samples, in microseconds; 0 when
\* there is no sample
SpanOf(samples) ==
  IF Len(samples) = 0 THEN 0
  ELSE LET T == {samples[i].ts[1] : i \in DOMAIN samples}
       IN (CHOOSE hi \in T : \A t \in T : t <= hi)
          - (CHOOSE lo \in T : \A t \in T : lo <= t)

\* span / (sampleCount - 1) for more than one sample, the span otherwise
IntervalOf(samples) ==
  IF Len(samples) > 1 THEN (SpanOf(samples) * Scale) \div (Len(samples) - 1)
  ELSE SpanOf(samples) * Scale

\* C11: each frame's selfTime of a trace-event capture is (the sum of the
\* weights of the samples referencing it, an absent weight counting as 1)
\* times averageSampleInterval, which is span / (sampleCount - 1) for more
\* than one sample and the span otherwise; three unweighted samples on one
\* parentless frame give a single flame node of value 3 * (span / 2) / 1000.
\* Stated for the captures whose span the parser measured as max - min (the
\* span itself is the subject of C14).
C11_SelfTimeIsWeightedInterval ==
  ( /\ parsed.outcome = "ok"
    /\ parsed.parser = "trace"
    /\ parsed.totalDuration = Num((SpanOf(json.samples.items) * Scale) \div 1000) ) =>
    LET samples == json.samples.items
    IN /\ \A i \in DOMAIN parsed.functions :
            parsed.functions[i].selfTime =
              Num(WeightSum(samples, Len(samples), parsed.functions[i].id)
                  * IntervalOf(samples))
       /\ ( /\ Len(samples) = 3
            /\ parsed.functions[1].parent = <<>>
            /\ \A k \in DOMAIN samples :
                 samples[k].sf = <<parsed.functions[1].id>> /\ samples[k].weight = <<>> ) =>
            /\ parsed.flamegraphData.value =
                 Num((3 * ((SpanOf(samples) * Scale) \div 2)) \div 1000)
            /\ Len(parsed.flamegraphData.children) = 0

NamesOf(functions) == {functions[i].name : i \in DOMAIN functions}

\* C12: every function name that occurs only in the right profile appears in
\* the differences exactly once, with type 'added', leftSelfTime = 0 and
\* leftTotalTime = 0.
C12_AddedOnce ==
  comparison.done =>
    \A name \in NamesOf(right.functions) \ NamesOf(left.functions) :
      LET at == {j \in DOMAIN comparison.differences :
                   comparison.differences[j].name = name}
      IN /\ Cardinality(at) = 1
         /\ \A j \in at :
              /\ comparison.differences[j].type = "added"
              /\ comparison.differences[j].leftSelfTime = Zero
              /\ comparison.differences[j].leftTotalTime = Zero

\* the right profile holds two records of one name, with time on them, that
\* the left profile, not empty itself, does not hold
C12_DuplicateAdded ==
  /\ comparison.done
  /\ Len(left.functions) >= 1
  /\ Len(right.functions) = 2
  /\ right.functions[1].name = right.functions[2].name
  /\ right.functions[1].name \notin NamesOf(left.functions)
  /\ right.functions[1].selfTime = FromInt(5)
  /\ \E j \in DOMAIN comparison.differences :
       comparison.differences[j].type = "added"

\* C13: once every started upload has completed and both a left and a right
\* profile are loaded, the comparison is present and equals
\* compareProfiles(leftProfile, rightProfile), for every interleaving of the
\* upload handlers.
C13_ComparisonIsCurrent ==
  ( /\ \A i \in DOMAIN uploads : uploads[i].done
    /\ leftProfile # NoProfile
    /\ rightProfile # NoProfile ) =>
    /\ comparison.done
    /\ comparison = compareProfiles(leftProfile, rightProfile)

\* C14: the totalDuration of a trace-event profile is non-negative and equals
\* (max timestamp - min timestamp) / 1000 over all samples; it is 0 for an
\* empty samples list.
C14_DurationIsSpan ==
  (parsed.outcome = "ok" /\ parsed.parser = "trace") =>
    /\ JsGe(parsed.totalDuration, Zero)
    /\ parsed.totalDuration = Num((SpanOf(json.samples.items) * Scale) \div 1000)

\* the ids a node's children list holds
ChildIds(node) == IF node.children.t = "array" THEN Range(node.children.items) ELSE {}

\* the positions of the nodes that no other node's children list names
RootPositions(nodes) ==
  {k \in DOMAIN nodes :
     \A o \in DOMAIN nodes \ {k} : nodes[k].id[1] \notin ChildIds(nodes[o])}

\* C15: in the sample-format flame-tree builder a node is a root if and only
\* if no other node's children list contains its id (its own list does not
\* count); with no root the result is a zero-value placeholder without
\* children, with one root it is that root's subtree, and with several it is
\* an artificial root of value 0 whose children are all the roots.
C15_RootsOfSampleFormat ==
  (parsed.outcome = "ok" /\ parsed.parser = "v8") =>
    LET nodes == json.nodes.items
        roots == RootPositions(nodes)
        tree == parsed.flamegraphData
    IN /\ roots = {} => tree = FlameNode("Root", Zero, <<>>)
       /\ \A k \in roots :
            Cardinality(roots) = 1 =>
              /\ tree.name = parsed.functions[k].name
              /\ tree.value = parsed.functions[k].selfTime
              /\ Len(tree.children) = Len(parsed.functions[k].children)
       /\ Cardinality(roots) > 1 =>
            /\ tree.name = "Root"
            /\ tree.value = Zero
            /\ Len(tree.children) = Cardinality(roots)
            /\ \A k \in roots :
                 \E c \in DOMAIN tree.children :
                   /\ tree.children[c].name = parsed.functions[k].name
                   /\ tree.children[c].value = parsed.functions[k].selfTime

\* the value the flame tree gives a frame: totalTime / 1000, never below 0
ValueOf(func) ==
  IF JsGt(func.totalTime, Zero) THEN JsDivInt(func.totalTime, 1000)
  ELSE IF func.totalTime.k = "nan" THEN NaN ELSE Zero

\* the frame's node survives pruning: it has a value above 0 or a child whose
\* node survives
RECURSIVE Survives(_, _)
Survives(fm, i) ==
  \/ JsGt(ValueOf(fm[i]), Zero)
  \/ \E c \in Range(fm[i].children) : Survives(fm, IndexOf(fm, c))

\* the root candidates (no parent, or a parent that is no frame) whose nodes
\* survive pruning
SurvivingRoots(fm) ==
  {i \in DOMAIN fm :
     /\ fm[i].parent = <<>> \/ \A o \in DOMAIN fm : <<fm[o].id>> # fm[i].parent
     /\ Survives(fm, i)}

\* C16: trace-event root selection over the root candidates that survive
\* pruning: with none the result is a zero-value root without children; with
\* one it is that root; with several the largest is returned alone if and
\* only if its value is strictly greater than twice the second largest's, and
\* otherwise the result is an artificial root of value 0 whose children are
\* all surviving roots in non-increasing value order.
C16_TraceRootSelection ==
  (parsed.outcome = "ok" /\ parsed.parser = "trace") =>
    LET fm == parsed.functions
        roots == SurvivingRoots(fm)
        tree == parsed.flamegraphData
        dominant == {i \in roots :
                       \A o \in roots \ {i} :
                         JsGt(ValueOf(fm[i]), JsMulInt(2, ValueOf(fm[o])))}
    IN /\ roots = {} => tree.value = Zero /\ Len(tree.children) = 0
       /\ \A i \in roots :
            Cardinality(roots) = 1 =>
              tree.name = fm[i].name /\ tree.value = ValueOf(fm[i])
       /\ Cardinality(roots) > 1 =>
            /\ \A i \in dominant :
                 tree.name = fm[i].name /\ tree.value = ValueOf(fm[i])
            /\ dominant = {} =>
                 /\ tree.name = "Profile Root"
                 /\ tree.value = Zero
                 /\ Len(tree.children) = Cardinality(roots)
                 /\ \A i \in roots :
                      \E c \in DOMAIN tree.children :
                        /\ tree.children[c].name = fm[i].name
                        /\ tree.children[c].value = ValueOf(fm[i])
                 /\ \A c \in 1..(Len(tree.children) - 1) :
                      JsGe(tree.children[c].value, tree.children[c + 1].value)

\* two roots, one of exactly twice the other's value: both are kept, the
\* larger first
C16_TwiceIsNotDominant ==
  /\ parsed.outcome = "ok"
  /\ parsed.parser = "trace"
  /\ parsed.flamegraphData.name = "Profile Root"
  /\ Len(parsed.flamegraphData.children) = 2
  /\ JsGt(parsed.flamegraphData.children[2].value, Zero)
  /\ parsed.flamegraphData.children[1].value =
       JsMulInt(2, parsed.flamegraphData.children[2].value)

\* C17: nothing that happens after parseCpuProfile returned changes a parsed
\* profile: no step (a comparison, a render in FlameGraphPanel) changes the
\* order or content of a profile's functions, so compareProfiles(left, right)
\* returns the same result before and after the step.
C17_ProfilesAreNotChanged ==
  [][ /\ left' = left
      /\ right' = right
      /\ compareProfiles(left', right') = compareProfiles(left, right) ]_vars

RECURSIVE SumValues(_, _)
SumValues(children, n) ==
  IF n = 0 THEN Zero ELSE JsAdd(SumValues(children, n - 1), children[n].value)

\* the node's children are in non-increasing value order and none of them is
\* a dead leaf (value 0 and no children)
ChildrenInOrder(node) ==
  /\ \A c \in 1..(Len(node.children) - 1) :
       JsGe(node.children[c].value, node.children[c + 1].value)
  /\ \A c \in DOMAIN node.children :
       ~(node.children[c].value = Zero /\ Len(node.children[c].children) = 0)

CoversChildren(node) ==
  JsGe(node.value, SumValues(node.children, Len(node.children)))

\* the node and every node below it is the node of a frame (the modelled
\* frames have names of their own): its value is the frame's totalTime / 1000
\* and at least the sum of its children's values, its children are in order
RECURSIVE FrameNodesOk(_, _)
FrameNodesOk(fm, node) ==
  /\ \E i \in DOMAIN fm :
       fm[i].name = node.name /\ node.value = JsDivInt(fm[i].totalTime, 1000)
  /\ ChildrenInOrder(node)
  /\ CoversChildren(node)
  /\ \A c \in DOMAIN node.children : FrameNodesOk(fm, node.children[c])

\* the top node was made by the builder, not from a frame
IsArtificialRoot(fm, node) == \A i \in DOMAIN fm : fm[i].name # node.name

====
